---- MODULE Spec2Model ----
(***************************************************************************)
(* higlass/viewer.py: the HiGlassDisplay widget's request/reply bridge     *)
(* (get_base64_img, _handle_js_events) and display()'s composition of      *)
(* views with a tile server.                                               *)
(***************************************************************************)
EXTENDS Integers, Sequences, FiniteSets, TLC

(***************************************************************************)
(* Bounds of the model.                                                    *)
(***************************************************************************)
\* number of get_base64_img calls explored (top-level and from callbacks)
MaxRequests == 2
\* number of inbound messages handed to _handle_js_events
MaxDeliveries == 3
\* the same two bounds for the concurrent specification
ConcRequests == 2
ConcDeliveries == 2

\* the n-th value returned by slugid.nice() is modelled as the number n
Ids == 1..MaxRequests
\* values of content["imgData"]
Payloads == {"imgA", "imgB"}

\* the thread of the kernel's event loop, and the threads of the
\* concurrent specification
MainThread == {1}
ConcThreads == {1, 2}
Threads == MainThread \cup ConcThreads

(***************************************************************************)
(* Values.                                                                 *)
(***************************************************************************)
\* What a callback does when called:
\*   "ok"      returns normally
\*   "raises"  raises an Exception
\*   "reissue" calls get_base64_img again with an "ok" callback and returns
\*   "none"    the caller passed None (falsy, no callable)
CallbackKinds == {"ok", "raises", "reissue", "none"}

\* The callback passed by the owner-th call of get_base64_img.
Callback(owner, kind) == [owner |-> owner, kind |-> kind]
NoCallback == [owner |-> 0, kind |-> "-"]

\* Inbound message contents: a full reply, a reply without imgData, a
\* message whose params has no uuid, a message without params.
FullMsgs == [shape : {"full"}, uuid : Ids, imgData : Payloads]
Contents ==
    FullMsgs
    \cup [shape : {"noImg"}, uuid : Ids, imgData : {"-"}]
    \cup [shape : {"noUuid", "noParams"}, uuid : {0}, imgData : {"-"}]
NoContent == [shape |-> "-", uuid |-> 0, imgData |-> "-"]

\* content["params"]["uuid"] evaluates without KeyError
HasUuid(c) == c.shape \in {"full", "noImg"}
\* content["imgData"] evaluates without KeyError
HasImgData(c) == c.shape = "full"

\* a del that empties the dict
DelAll(d, k) == [x \in {} |-> d[x]]

\* dict operations
Put(d, k, v) == [x \in DOMAIN d \cup {k} |-> IF x = k THEN v ELSE d[x]]
Del(d, k) == [x \in DOMAIN d \ {k} |-> d[x]]
EmptyDict == [x \in {} |-> NoCallback]

VARIABLES
    callbacks,    \* self.callbacks: uuid -> callback
    issued,       \* number of uuids slugid.nice() has returned
    sent,         \* outbound messages passed to self.send, in order
    invocations,  \* the callback calls made by _handle_js_events, in order
    delivered,    \* number of inbound messages handed to the handler
    errlog,       \* number of exceptions logged by the handler
    pc,           \* per thread: position in the code
    content,      \* per thread: the message being handled
    fn,           \* per thread: the callable being run by the handler
    exc,          \* per thread: the exception in flight
    outcome,      \* per thread: how the handler ended ("returned"/"raised")
    pending0,     \* per thread: self.callbacks when the handler was entered
    ninv0,        \* per thread: Len(invocations) when the handler was entered
    uuid,         \* per thread: local uuid of get_base64_img
    callback,     \* per thread: argument callback of get_base64_img
    ret,          \* per thread: where get_base64_img returns to
    issuedBy      \* uuid made by a call from a callback -> the uuid of the
                  \* reply that callback was called for

VARIABLES
    views,        \* display(): the caller's views, as they are now
    views0,       \* the caller's views as they were when display was called
    tilesets,     \* display(): the list passed to Server
    started,      \* the tileset lists server.start() was called for
    api_address,  \* server.api_address
    cloned_views, \* display(): the clones
    viewconf,     \* display(): the ViewConf built from the clones
    cpc           \* position in display()

VARIABLES
    b64str,       \* save_b64_image_to_png: the argument, a list of characters
    imgdata,      \* save_b64_image_to_png: the decoded bytes
    file,         \* the bytes of the file named filename, or "absent"
    ipc           \* position in save_b64_image_to_png

bridgeVars == <<callbacks, issued, sent, invocations, delivered, errlog, pc,
                content, fn, exc, outcome, pending0, ninv0, uuid, callback,
                ret, issuedBy>>

composeVars == <<views, views0, tilesets, started, api_address, cloned_views,
                 viewconf, cpc>>

imageVars == <<b64str, imgdata, file, ipc>>

vars == <<bridgeVars, composeVars, imageVars>>

handlerLocals == <<content, fn, exc, outcome, pending0, ninv0>>
requestLocals == <<uuid, callback, ret>>

(***************************************************************************)
(* HiGlassDisplay.__init__                                                 *)
(***************************************************************************)
BridgeInit ==
    /\ callbacks = EmptyDict
    /\ issued = 0
    /\ sent = <<>>
    /\ invocations = <<>>
    /\ delivered = 0
    /\ errlog = 0
    /\ pc = [t \in Threads |-> "idle"]
    /\ content = [t \in Threads |-> NoContent]
    /\ fn = [t \in Threads |-> NoCallback]
    /\ exc = [t \in Threads |-> "-"]
    /\ outcome = [t \in Threads |-> "-"]
    /\ pending0 = [t \in Threads |-> EmptyDict]
    /\ ninv0 = [t \in Threads |-> 0]
    /\ uuid = [t \in Threads |-> 0]
    /\ callback = [t \in Threads |-> NoCallback]
    /\ ret = [t \in Threads |-> "-"]
    /\ issuedBy = [x \in {} |-> 0]

(***************************************************************************)
(* HiGlassDisplay.get_base64_img                                           *)
(***************************************************************************)
\* slugid.nice(): a random v4 UUID, taken to differ from every one
\* returned before.
nice == {issued + 1}

\* the callback stored under one fixed key
StoreKeyFixed(t) == 1

\* the key get_base64_img stores the callback under
StoreKey(t) == uuid[t]

\* an outbound message whose params lacks the uuid
OutMsgNoUuid(t) == [request |-> "save_as_png", uuid |-> 0]

\* the outbound message: {"request": "save_as_png", "params": {"uuid": uuid}}
OutMsg(t) == [request |-> "save_as_png", uuid |-> uuid[t]]

\* entry of get_base64_img(cb) with uuid = slugid.nice(); returns to r
Enter_get_base64_img(t, kind, r) ==
    /\ \E u \in nice :
        /\ uuid' = [uuid EXCEPT ![t] = u]
        /\ callback' = [callback EXCEPT ![t] = Callback(issued + 1, kind)]
    /\ issued' = issued + 1
    /\ ret' = [ret EXCEPT ![t] = r]
    /\ pc' = [pc EXCEPT ![t] = "r_store"]

\* a caller calls get_base64_img(callback)
Request(t, maxReq) ==
    /\ pc[t] = "idle"
    /\ UNCHANGED <<composeVars, imageVars>>
    /\ UNCHANGED issuedBy
    /\ issued < maxReq
    /\ \E kind \in CallbackKinds : Enter_get_base64_img(t, kind, "idle")
    /\ UNCHANGED <<callbacks, sent, invocations, delivered, errlog,
                   handlerLocals>>

\* self.callbacks[uuid] = callback
RStore(t) ==
    /\ pc[t] = "r_store"
    /\ UNCHANGED <<composeVars, imageVars>>
    /\ UNCHANGED issuedBy
    /\ callbacks' = Put(callbacks, StoreKey(t), callback[t])
    /\ pc' = [pc EXCEPT ![t] = "r_send"]
    /\ UNCHANGED <<issued, sent, invocations, delivered, errlog,
                   handlerLocals, requestLocals>>

\* self.send(json.dumps(...)); return
RSend(t) ==
    /\ pc[t] = "r_send"
    /\ UNCHANGED <<composeVars, imageVars>>
    /\ UNCHANGED issuedBy
    /\ sent' = Append(sent, OutMsg(t))
    /\ pc' = [pc EXCEPT ![t] = ret[t]]
    /\ uuid' = [uuid EXCEPT ![t] = 0]
    /\ callback' = [callback EXCEPT ![t] = NoCallback]
    /\ ret' = [ret EXCEPT ![t] = "-"]
    /\ UNCHANGED <<callbacks, issued, invocations, delivered, errlog,
                   handlerLocals>>

(***************************************************************************)
(* HiGlassDisplay._handle_js_events                                        *)
(***************************************************************************)
\* the channel calls _handle_js_events(widget, content)
Deliver(t, maxDel) ==
    /\ pc[t] = "idle"
    /\ UNCHANGED <<composeVars, imageVars>>
    /\ UNCHANGED issuedBy
    /\ delivered < maxDel
    /\ delivered' = delivered + 1
    /\ \E c \in Contents : content' = [content EXCEPT ![t] = c]
    /\ pending0' = [pending0 EXCEPT ![t] = callbacks]
    /\ ninv0' = [ninv0 EXCEPT ![t] = Len(invocations)]
    /\ outcome' = [outcome EXCEPT ![t] = "-"]
    /\ pc' = [pc EXCEPT ![t] = "h_if"]
    /\ UNCHANGED <<callbacks, issued, sent, invocations, errlog, fn, exc,
                   requestLocals>>

\* raise e inside the try block
Raise(t, e) ==
    /\ exc' = [exc EXCEPT ![t] = e]
    /\ pc' = [pc EXCEPT ![t] = "h_except"]

\* bool(cb) of a stored callback
Truthy(cb) == cb.kind # "none"

\* if self.callbacks[content["params"]["uuid"]]:
HIf(t) ==
    /\ pc[t] = "h_if"
    /\ UNCHANGED <<composeVars, imageVars>>
    /\ UNCHANGED issuedBy
    /\ IF ~HasUuid(content[t]) \/ content[t].uuid \notin DOMAIN callbacks
         THEN Raise(t, "KeyError")
         ELSE /\ pc' = [pc EXCEPT ![t] =
                    IF Truthy(callbacks[content[t].uuid])
                        THEN "h_call" ELSE "h_ret"]
              /\ exc' = exc
    /\ outcome' = [outcome EXCEPT ![t] =
            IF pc'[t] = "h_ret" THEN "returned" ELSE "-"]
    /\ UNCHANGED <<callbacks, issued, sent, invocations, delivered, errlog,
                   content, fn, pending0, ninv0, requestLocals>>

\* self.callbacks[content["params"]["uuid"]](content["imgData"]):
\* the callee and the argument are evaluated and the call is entered
HCall(t) ==
    /\ pc[t] = "h_call"
    /\ UNCHANGED <<composeVars, imageVars>>
    /\ UNCHANGED issuedBy
    /\ IF content[t].uuid \notin DOMAIN callbacks \/ ~HasImgData(content[t])
         THEN /\ Raise(t, "KeyError")
              /\ UNCHANGED <<fn, invocations>>
         ELSE /\ fn' = [fn EXCEPT ![t] = callbacks[content[t].uuid]]
              /\ invocations' = Append(invocations,
                    [cb |-> callbacks[content[t].uuid],
                     arg |-> content[t].imgData,
                     by |-> content[t].uuid])
              /\ pc' = [pc EXCEPT ![t] = "in_cb"]
              /\ exc' = exc
    /\ UNCHANGED <<callbacks, issued, sent, delivered, errlog, content,
                   outcome, pending0, ninv0, requestLocals>>

\* the body of the callback runs
CallbackBody(t, maxReq) ==
    /\ pc[t] = "in_cb"
    /\ UNCHANGED <<composeVars, imageVars>>
    /\ CASE fn[t].kind = "raises" ->
              /\ Raise(t, "CallbackError")
              /\ UNCHANGED <<issued, requestLocals, issuedBy>>
         [] fn[t].kind = "reissue" /\ issued < maxReq ->
              /\ Enter_get_base64_img(t, "ok", "h_del")
              /\ issuedBy' = [x \in DOMAIN issuedBy \cup {uuid'[t]} |->
                    IF x = uuid'[t] THEN content[t].uuid ELSE issuedBy[x]]
              /\ exc' = exc
         [] OTHER ->
              /\ pc' = [pc EXCEPT ![t] = "h_del"]
              /\ UNCHANGED <<issued, exc, requestLocals, issuedBy>>
    /\ UNCHANGED <<callbacks, sent, invocations, delivered, errlog, content,
                   fn, outcome, pending0, ninv0>>

\* the dict as it was when the handler was entered, less the uuid, put
\* back after the call
HDelFromSnapshot(t) ==
    /\ pc[t] = "h_del"
    /\ UNCHANGED <<composeVars, imageVars>>
    /\ UNCHANGED issuedBy
    /\ callbacks' = [x \in DOMAIN pending0[t] \ {content[t].uuid} |->
                        pending0[t][x]]
    /\ pc' = [pc EXCEPT ![t] = "h_ret"]
    /\ outcome' = [outcome EXCEPT ![t] = "returned"]
    /\ UNCHANGED <<issued, sent, invocations, delivered, errlog, content, fn,
                   exc, pending0, ninv0, requestLocals>>

\* del self.callbacks[content["params"]["uuid"]]
HDel(t) ==
    /\ pc[t] = "h_del"
    /\ UNCHANGED <<composeVars, imageVars>>
    /\ UNCHANGED issuedBy
    /\ IF content[t].uuid \notin DOMAIN callbacks
         THEN /\ Raise(t, "KeyError")
              /\ UNCHANGED <<callbacks, outcome>>
         ELSE /\ callbacks' = Del(callbacks, content[t].uuid)
              /\ pc' = [pc EXCEPT ![t] = "h_ret"]
              /\ outcome' = [outcome EXCEPT ![t] = "returned"]
              /\ exc' = exc
    /\ UNCHANGED <<issued, sent, invocations, delivered, errlog, content, fn,
                   pending0, ninv0, requestLocals>>

\* except KeyError: the callback's exception is not caught
IsKeyErrorOnly(e) == e = "KeyError"

\* an except clause that does not cover the lookups' KeyError
IsCallbackErrorOnly(e) == e = "CallbackError"

\* isinstance(e, Exception)
IsException(e) == e \in {"KeyError", "CallbackError"}

\* except Exception as e: self.log.error(e); self.log.exception(...)
HExcept(t) ==
    /\ pc[t] = "h_except"
    /\ UNCHANGED <<composeVars, imageVars>>
    /\ UNCHANGED issuedBy
    /\ IF IsException(exc[t])
         THEN /\ errlog' = errlog + 1
              /\ outcome' = [outcome EXCEPT ![t] = "returned"]
         ELSE /\ errlog' = errlog
              /\ outcome' = [outcome EXCEPT ![t] = "raised"]
    /\ exc' = [exc EXCEPT ![t] = "-"]
    /\ pc' = [pc EXCEPT ![t] = "h_ret"]
    /\ UNCHANGED <<callbacks, issued, sent, invocations, delivered, content,
                   fn, pending0, ninv0, requestLocals>>

\* control is back in the caller of _handle_js_events
HReturn(t) ==
    /\ pc[t] = "h_ret"
    /\ UNCHANGED <<composeVars, imageVars>>
    /\ UNCHANGED issuedBy
    /\ pc' = [pc EXCEPT ![t] = "idle"]
    /\ content' = [content EXCEPT ![t] = NoContent]
    /\ fn' = [fn EXCEPT ![t] = NoCallback]
    /\ outcome' = [outcome EXCEPT ![t] = "-"]
    /\ pending0' = [pending0 EXCEPT ![t] = EmptyDict]
    /\ ninv0' = [ninv0 EXCEPT ![t] = 0]
    /\ UNCHANGED <<callbacks, issued, sent, invocations, delivered, errlog,
                   exc, requestLocals>>

\* a caller cancels a pending request: del display.callbacks[u]
Cancel(t) ==
    /\ pc[t] = "idle"
    /\ UNCHANGED <<composeVars, imageVars>>
    /\ UNCHANGED issuedBy
    /\ \E u \in DOMAIN callbacks : callbacks' = Del(callbacks, u)
    /\ UNCHANGED <<issued, sent, invocations, delivered, errlog, pc,
                   handlerLocals, requestLocals>>

Step(t, maxReq, maxDel) ==
    \/ Request(t, maxReq)
    \/ RStore(t)
    \/ RSend(t)
    \/ Deliver(t, maxDel)
    \/ HIf(t)
    \/ HCall(t)
    \/ CallbackBody(t, maxReq)
    \/ HDel(t)
    \/ HExcept(t)
    \/ HReturn(t)
    \/ Cancel(t)


(***************************************************************************)
(* display(): views, tracks and their configuration                        *)
(***************************************************************************)
\* views plus tracks of the view collections explored
MaxNodes == 4
\* nesting of combined tracks explored
MaxDepth == 2

None == "None"
Tilesets == {"T1", "T2"}
\* conf["server"]: key absent, None, the empty string, an address
ServerValues == {"absent", "null", "empty", "external:9000"}
FreshAddress == "fresh:8000"
EditedAddress == "edited:7000"

\* a Track with a tileset (or None) and a conf
Track(ts, sv) == [kind |-> "leaf", tileset |-> ts, server |-> sv, tracks |-> <<>>]
\* the Tracks explored: every server value on a track of T1, and tracks
\* of another tileset and of no tileset
LeafTracks ==
    {Track("T1", sv) : sv \in ServerValues}
    \cup {Track("T2", "absent"), Track(None, "absent"),
          Track(None, "external:9000")}
\* a CombinedTrack over the given tracks
CombinedTrack(children) ==
    [kind |-> "combined", tileset |-> None, server |-> "absent",
     tracks |-> children]

RECURSIVE TracksOfSize(_, _)
RECURSIVE TrackSeqs(_, _)
\* the tracks made of k track objects, combined tracks nested d deep at most
TracksOfSize(k, d) ==
    IF k = 1
        THEN LeafTracks \cup (IF d > 0 THEN {CombinedTrack(<<>>)} ELSE {})
        ELSE IF d > 0
            THEN {CombinedTrack(c) : c \in TrackSeqs(k - 1, d - 1)}
            ELSE {}
\* the track lists made of n track objects
TrackSeqs(n, d) ==
    IF n = 0
        THEN {<<>>}
        ELSE UNION {{<<tr>> \o r : tr \in TracksOfSize(k, d),
                                   r \in TrackSeqs(n - k, d)} : k \in 1..n}

RECURSIVE ViewSeqs(_)
\* the view lists made of n views and tracks
ViewSeqs(n) ==
    IF n = 0
        THEN {<<>>}
        ELSE UNION {{<<[tracks |-> f]>> \o r :
                        f \in TrackSeqs(k - 1, MaxDepth),
                        r \in ViewSeqs(n - k)} : k \in 1..n}

ViewCollections == UNION {ViewSeqs(n) : n \in 0..MaxNodes}

\* display() is not running
ComposeIdle ==
    /\ views = <<>>
    /\ views0 = <<>>
    /\ tilesets = <<>>
    /\ started = <<>>
    /\ api_address = "-"
    /\ cloned_views = <<>>
    /\ viewconf = "-"
    /\ cpc = "off"

\* display(views) is called
ComposeInit ==
    /\ views \in ViewCollections
    /\ views0 = views
    /\ tilesets = <<>>
    /\ started = <<>>
    /\ api_address = "-"
    /\ cloned_views = <<>>
    /\ viewconf = "-"
    /\ cpc = "extract"

RECURSIVE Concat(_)
\* the concatenation of a list of lists
Concat(ss) == IF ss = <<>> THEN <<>> ELSE Head(ss) \o Concat(Tail(ss))

\* hasattr(track, "tracks")
HasTracksAttr(tr) == tr.kind = "combined"
\* isinstance(track, CombinedTrack)
IsCombinedTrack(tr) == tr.kind = "combined"
\* if track.tileset:
HasTileset(tr) == tr.tileset # None

\* [track1.tileset for track1 in trs if track1.tileset]
TilesetsOf(trs) ==
    LET with == SelectSeq(trs, HasTileset)
    IN  [i \in 1..Len(with) |-> with[i].tileset]

\* a loop that does not look into track.tracks
TrackTilesetsTopOnly(tr) ==
    IF tr.tileset # "None" THEN <<tr.tileset>> ELSE <<>>

\* one round of the loop over view.tracks that fills tilesets
TrackTilesets(tr) ==
    (IF HasTracksAttr(tr) THEN TilesetsOf(tr.tracks) ELSE <<>>)
    \o (IF HasTileset(tr) THEN <<tr.tileset>> ELSE <<>>)

\* tilesets after the loops over views
ExtractTilesets(vs) ==
    Concat([i \in 1..Len(vs) |->
        Concat([j \in 1..Len(vs[i].tracks) |->
            TrackTilesets(vs[i].tracks[j])])])

\* the loops that fill tilesets
Extract ==
    /\ cpc = "extract"
    /\ tilesets' = ExtractTilesets(views)
    /\ cpc' = "start"
    /\ UNCHANGED <<views, views0, started, api_address, cloned_views,
                   viewconf>>
    /\ UNCHANGED <<bridgeVars, imageVars>>

\* a start that is tried a second time before display() goes on
StartServerRetry ==
    /\ cpc = "start"
    /\ started' = started \o <<tilesets, tilesets>>
    /\ api_address' = "fresh:8000"
    /\ cpc' = "clone"
    /\ UNCHANGED <<views, views0, tilesets, cloned_views, viewconf>>
    /\ UNCHANGED <<bridgeVars, imageVars>>

\* server = Server(tilesets, ...); server.start(): the server comes up, or
\* start raises and display() is left
StartServer ==
    /\ cpc = "start"
    /\ started' = Append(started, tilesets)
    /\ \E up \in BOOLEAN :
        IF up
            THEN api_address' = FreshAddress /\ cpc' = "clone"
            ELSE api_address' = api_address /\ cpc' = "raised"
    /\ UNCHANGED <<views, views0, tilesets, cloned_views, viewconf>>
    /\ UNCHANGED <<bridgeVars, imageVars>>

RECURSIVE TrackToDict(_)
RECURSIVE TrackFromDict(_)
\* Track.to_dict(), CombinedTrack.to_dict()
TrackToDict(tr) ==
    [type |-> tr.kind, tilesetUid |-> tr.tileset, server |-> tr.server,
     contents |-> [i \in 1..Len(tr.tracks) |-> TrackToDict(tr.tracks[i])]]
\* Track.from_dict(), CombinedTrack.from_dict()
TrackFromDict(d) ==
    [kind |-> d.type, tileset |-> d.tilesetUid, server |-> d.server,
     tracks |-> [i \in 1..Len(d.contents) |-> TrackFromDict(d.contents[i])]]
\* View.to_dict()
ViewToDict(v) ==
    [tracks |-> [j \in 1..Len(v.tracks) |-> TrackToDict(v.tracks[j])]]
\* View.from_dict()
ViewFromDict(d) ==
    [tracks |-> [j \in 1..Len(d.tracks) |-> TrackFromDict(d.tracks[j])]]

\* cloned_views = [View.from_dict(view.to_dict()) for view in views]
CloneViews ==
    /\ cpc = "clone"
    /\ cloned_views' = [i \in 1..Len(views) |-> ViewFromDict(ViewToDict(views[i]))]
    /\ cpc' = "rewrite"
    /\ UNCHANGED <<views, views0, tilesets, started, api_address, viewconf>>
    /\ UNCHANGED <<bridgeVars, imageVars>>

\* conf["server"] = addr without a look at the value it has
SetServerAlways(tr, addr) == [tr EXCEPT !.server = addr]

\* if "server" not in conf or conf["server"] is None: conf["server"] = addr
SetServer(tr, addr) ==
    IF tr.server = "absent" \/ tr.server = "null"
        THEN [tr EXCEPT !.server = addr]
        ELSE tr

\* one round of the loop over view.tracks that sets the servers
RewriteTrack(tr, addr) ==
    IF IsCombinedTrack(tr)
        THEN [tr EXCEPT !.tracks =
                [k \in 1..Len(tr.tracks) |-> SetServer(tr.tracks[k], addr)]]
        ELSE SetServer(tr, addr)

\* the views after the loops that set the servers
RewriteAll(vs, addr) ==
    [i \in 1..Len(vs) |->
        [vs[i] EXCEPT !.tracks =
            [j \in 1..Len(vs[i].tracks) |-> RewriteTrack(vs[i].tracks[j], addr)]]]

\* the loops run over views, without a clone
RewriteViewsInPlace ==
    /\ cpc = "rewrite"
    /\ views' = RewriteAll(views, api_address)
    /\ cpc' = "build"
    /\ UNCHANGED <<views0, tilesets, started, api_address, cloned_views,
                   viewconf>>
    /\ UNCHANGED <<bridgeVars, imageVars>>

\* for view in cloned_views: for track in view.tracks: ...
RewriteViews ==
    /\ cpc = "rewrite"
    /\ cloned_views' = RewriteAll(cloned_views, api_address)
    /\ cpc' = "build"
    /\ UNCHANGED <<views, views0, tilesets, started, api_address, viewconf>>
    /\ UNCHANGED <<bridgeVars, imageVars>>

\* viewconf = ViewConf(cloned_views, ...); return (HiGlassDisplay, server,
\* viewconf)
Return ==
    /\ cpc = "build"
    /\ viewconf' = [views |-> [i \in 1..Len(cloned_views) |->
                                  ViewToDict(cloned_views[i])]]
    /\ cpc' = "returned"
    /\ UNCHANGED <<views, views0, tilesets, started, api_address,
                   cloned_views>>
    /\ UNCHANGED <<bridgeVars, imageVars>>

\* the caller changes the conf of a track of the returned clones
EditClone ==
    /\ cpc = "returned"
    /\ \E i \in 1..Len(cloned_views) :
       \E j \in 1..Len(cloned_views[i].tracks) :
          cloned_views' = [cloned_views EXCEPT
                              ![i].tracks[j].server = EditedAddress]
    /\ cpc' = "edited"
    /\ UNCHANGED <<views, views0, tilesets, started, api_address, viewconf>>
    /\ UNCHANGED <<bridgeVars, imageVars>>

(***************************************************************************)
(* save_b64_image_to_png                                                   *)
(***************************************************************************)
\* number of comma-separated pieces of the strings explored
MaxParts == 3

\* the pieces the strings are made of: a data URI header, base64 text
\* with and without padding, base64 text cut short, nothing
Pieces ==
    { <<"d", "a", "t", "a", ":", "i", "m", "a", "g", "e", "/", "p", "n", "g",
        ";", "b", "a", "s", "e", "6", "4">>,
      <<"A", "A", "A", "A">>,
      <<"Q", "U", "I", "=">>,
      <<"Q", "Q", "=", "=">>,
      <<"Q", "Q">>,
      <<>> }

RECURSIVE JoinedPieces(_)
\* the strings of n pieces joined by commas
JoinedPieces(n) ==
    IF n = 1
        THEN Pieces
        ELSE {p \o <<",">> \o r : p \in Pieces, r \in JoinedPieces(n - 1)}

DataStrings == UNION {JoinedPieces(n) : n \in 1..MaxParts}

\* the base64 alphabet, in the order of the values 0..63
B64Alphabet ==
    << "A", "B", "C", "D", "E", "F", "G", "H", "I", "J", "K", "L", "M",
       "N", "O", "P", "Q", "R", "S", "T", "U", "V", "W", "X", "Y", "Z",
       "a", "b", "c", "d", "e", "f", "g", "h", "i", "j", "k", "l", "m",
       "n", "o", "p", "q", "r", "s", "t", "u", "v", "w", "x", "y", "z",
       "0", "1", "2", "3", "4", "5", "6", "7", "8", "9", "+", "/" >>
IsB64Char(ch) == \E v \in 1..64 : B64Alphabet[v] = ch
B64Value(ch) == (CHOOSE v \in 1..64 : B64Alphabet[v] = ch) - 1

RECURSIVE A2B(_, _, _, _, _, _)
\* binascii.a2b_base64 from character i on: quad is the place in the
\* group of four, left the bits carried over, pads the padding seen;
\* characters outside the alphabet are skipped, padding that completes a
\* group ends the data, an incomplete group at the end is an error
A2B(q, i, quad, left, pads, out) ==
    IF i > Len(q)
        THEN [ok |-> quad = 0, bytes |-> IF quad = 0 THEN out ELSE <<>>]
    ELSE IF q[i] = "="
        THEN IF quad >= 2 /\ quad + pads + 1 >= 4
                THEN [ok |-> TRUE, bytes |-> out]
                ELSE A2B(q, i + 1, quad, left,
                         IF quad >= 2 THEN pads + 1 ELSE pads, out)
    ELSE IF ~IsB64Char(q[i])
        THEN A2B(q, i + 1, quad, left, pads, out)
    ELSE LET v == B64Value(q[i])
         IN CASE quad = 0 -> A2B(q, i + 1, 1, v, 0, out)
              [] quad = 1 -> A2B(q, i + 1, 2, v % 16, 0,
                                 Append(out, left * 4 + v \div 16))
              [] quad = 2 -> A2B(q, i + 1, 3, v % 4, 0,
                                 Append(out, left * 16 + v \div 4))
              [] quad = 3 -> A2B(q, i + 1, 0, 0, 0,
                                 Append(out, left * 64 + v))

\* base64.b64decode(s): the bytes, or ok = FALSE when it raises
b64decode(q) == A2B(q, 1, 0, 0, 0, <<>>)

RECURSIVE Split(_, _)
\* q.split(sep)
Split(q, sep) ==
    IF \A i \in 1..Len(q) : q[i] # sep
        THEN <<q>>
        ELSE LET k == CHOOSE i \in 1..Len(q) :
                          q[i] = sep /\ \A j \in 1..(i - 1) : q[j] # sep
             IN  <<SubSeq(q, 1, k - 1)>> \o Split(SubSeq(q, k + 1, Len(q)), sep)

\* a split at the first comma only: b64str.split(",", 1)[1]
PayloadAfterFirstComma(q) ==
    LET k == CHOOSE i \in 1..Len(q) :
                 q[i] = "," /\ \A j \in 1..(i - 1) : q[j] # ","
    IN  SubSeq(q, k + 1, Len(q))

\* b64str.split(",")[1]
Payload(q) == Split(q, ",")[2]

\* save_b64_image_to_png is not running
ImageIdle ==
    /\ b64str = <<>>
    /\ imgdata = <<>>
    /\ file = "absent"
    /\ ipc = "off"

\* save_b64_image_to_png(filename, b64str) is called
ImageInit ==
    /\ b64str \in DataStrings
    /\ imgdata = <<>>
    /\ file = "absent"
    /\ ipc = "decode"

\* imgdata = base64.b64decode(b64str.split(",")[1]); IndexError without a
\* comma, binascii.Error for text that is no base64
ImgDecode ==
    /\ ipc = "decode"
    /\ IF Len(Split(b64str, ",")) < 2
         THEN imgdata' = imgdata /\ ipc' = "raised"
         ELSE IF b64decode(Payload(b64str)).ok
             THEN /\ imgdata' = b64decode(Payload(b64str)).bytes
                  /\ ipc' = "open"
             ELSE imgdata' = imgdata /\ ipc' = "raised"
    /\ UNCHANGED <<b64str, file>>
    /\ UNCHANGED <<bridgeVars, composeVars>>

\* with open(filename, "wb") as f: f.write(imgdata); OSError when the
\* path cannot be written
ImgWrite ==
    /\ ipc = "open"
    /\ \E writable \in BOOLEAN :
        IF writable
            THEN file' = imgdata /\ ipc' = "done"
            ELSE file' = file /\ ipc' = "raised"
    /\ UNCHANGED <<b64str, imgdata>>
    /\ UNCHANGED <<bridgeVars, composeVars>>

(***************************************************************************)
(* Specifications.                                                         *)
(***************************************************************************)
\* everything runs on the event loop's thread
Init == BridgeInit /\ ComposeIdle /\ ImageIdle
Next == \E t \in MainThread : Step(t, MaxRequests, MaxDeliveries)
Spec == Init /\ [][Next]_vars

\* requests and deliveries run on concurrent threads
NextConc == \E t \in ConcThreads : Step(t, ConcRequests, ConcDeliveries)
SpecConc == Init /\ [][NextConc]_vars

\* one call of display(views)
InitCompose == BridgeInit /\ ComposeInit /\ ImageIdle
NextCompose ==
    \/ Extract
    \/ StartServer
    \/ CloneViews
    \/ RewriteViews
    \/ Return
    \/ EditClone
SpecCompose == InitCompose /\ [][NextCompose]_vars

\* one call of save_b64_image_to_png(filename, b64str)
InitImage == BridgeInit /\ ComposeIdle /\ ImageInit
NextImage ==
    \/ ImgDecode
    \/ ImgWrite
SpecImage == InitImage /\ [][NextImage]_vars

(***************************************************************************)
(* Shorthands for the properties.                                          *)
(***************************************************************************)
InvIdx == 1..Len(invocations)
\* the handler of thread t has returned and has not been left yet
Returned(t) == pc[t] = "h_ret"
\* the message of thread t named an entry that was pending at entry
WasPending(t) ==
    HasUuid(content[t]) /\ content[t].uuid \in DOMAIN pending0[t]
\* the invocations made since thread t entered the handler
NewInvocations(t) == (ninv0[t] + 1)..Len(invocations)
SentIds == {sent[i].uuid : i \in 1..Len(sent)}
\* ids whose get_base64_img call has not returned yet
InFlight == {uuid[t] : t \in {x \in Threads : pc[x] \in {"r_store", "r_send"}}}

(***************************************************************************)
(* C1: the callback registered for an id is invoked at most once, whatever *)
(* messages arrive (duplicates, replies whose callback raises), and only   *)
(* by a message carrying that id.                                          *)
(***************************************************************************)
C1_AtMostOnce ==
    /\ \A i \in InvIdx : invocations[i].by = invocations[i].cb.owner
    /\ \A i, j \in InvIdx :
          i # j => invocations[i].cb.owner # invocations[j].cb.owner

(***************************************************************************)
(* C2: when the callback starts running, the uuid of the message is no     *)
(* longer a key of self.callbacks.                                         *)
(***************************************************************************)
C2_RemovedBeforeInvoke ==
    \A t \in Threads :
        pc[t] = "in_cb" => content[t].uuid \notin DOMAIN callbacks

(***************************************************************************)
(* C3: a callback that raises does not make the handler raise, and after   *)
(* it the reply of any other pending request with a callable callback      *)
(* still invokes that callback with the reply's imgData.                   *)
(***************************************************************************)
\* a callback of another request raised before thread t's handler began
RaisedBefore(t) ==
    \E k \in 1..ninv0[t] :
        /\ invocations[k].cb.kind = "raises"
        /\ invocations[k].cb.owner # content[t].uuid

\* thread t's handler invoked the callback pending under the message's
\* uuid, once, with the message's imgData
InvokedWithPayload(t) ==
    /\ Len(invocations) = ninv0[t] + 1
    /\ invocations[Len(invocations)] =
          [cb |-> pending0[t][content[t].uuid],
           arg |-> content[t].imgData,
           by |-> content[t].uuid]

C3_Isolation ==
    \A t \in Threads :
        Returned(t) =>
            /\ fn[t].kind = "raises" => outcome[t] = "returned"
            /\ ( /\ RaisedBefore(t)
                 /\ WasPending(t)
                 /\ HasImgData(content[t])
                 /\ Truthy(pending0[t][content[t].uuid]) )
               => InvokedWithPayload(t)

C3_Witness ==
    \E t \in Threads :
        /\ Returned(t)
        /\ RaisedBefore(t)
        /\ WasPending(t)
        /\ HasImgData(content[t])
        /\ pending0[t][content[t].uuid].kind = "ok"
        /\ InvokedWithPayload(t)

(***************************************************************************)
(* C4: a delivery for id X invokes only the callback registered under X    *)
(* and leaves every other pending entry as it was.                         *)
(***************************************************************************)
C4_Frame ==
    \A t \in Threads :
        /\ \A v \in DOMAIN pending0[t] :
              v # content[t].uuid =>
                  v \in DOMAIN callbacks /\ callbacks[v] = pending0[t][v]
        /\ pc[t] \in {"h_if", "h_call", "in_cb", "h_del", "h_except", "h_ret"}
              => \A i \in NewInvocations(t) :
                    /\ invocations[i].by = content[t].uuid
                    /\ invocations[i].cb.owner = content[t].uuid

\* R1 then R2 were issued, R2's reply was delivered: R1 is pending and
\* was never invoked
C4_Witness ==
    \E t \in Threads :
        /\ Returned(t)
        /\ DOMAIN pending0[t] = {1, 2}
        /\ content[t].uuid = 2
        /\ \E i \in NewInvocations(t) : invocations[i].cb.owner = 2
        /\ 1 \in DOMAIN callbacks
        /\ \A i \in InvIdx : invocations[i].cb.owner # 1

(***************************************************************************)
(* C5: a message whose uuid is not pending (never issued, delivered        *)
(* before, cancelled) or that has no params/uuid invokes nothing, makes    *)
(* the handler raise nothing and leaves self.callbacks unchanged.          *)
(***************************************************************************)
C5_UnknownDropped ==
    \A t \in Threads :
        (Returned(t) /\ ~WasPending(t)) =>
            /\ Len(invocations) = ninv0[t]
            /\ callbacks = pending0[t]
            /\ outcome[t] = "returned"

\* the late reply of a cancelled request, with another request pending
C5_Witness ==
    \E t \in Threads :
        /\ Returned(t)
        /\ HasUuid(content[t])
        /\ content[t].uuid \in SentIds
        /\ content[t].uuid \notin DOMAIN pending0[t]
        /\ \A i \in InvIdx : invocations[i].by # content[t].uuid
        /\ DOMAIN callbacks # {}

(***************************************************************************)
(* C6: once the handler has returned for a message whose uuid was pending  *)
(* (under a callable callback), that uuid is no longer in self.callbacks:  *)
(* whether the callback returned, raised, or imgData was missing.          *)
(***************************************************************************)
C6_RemovedOnReply ==
    \A t \in Threads :
        ( /\ Returned(t)
          /\ WasPending(t)
          /\ Truthy(pending0[t][content[t].uuid]) )
        => content[t].uuid \notin DOMAIN callbacks

(***************************************************************************)
(* C7: under every interleaving of requests and deliveries no pending      *)
(* entry of another request is lost or overwritten, no callback (here:     *)
(* one that returns normally) is invoked twice for one id, and the handler *)
(* raises nothing.                                                         *)
(***************************************************************************)
C7_SafeInterleaving ==
    /\ \A u \in DOMAIN callbacks : callbacks[u].owner = u
    /\ \A t \in Threads : outcome[t] # "raised"
    /\ \A i, j \in InvIdx :
          ( /\ i # j
            /\ invocations[i].cb.kind = "ok" )
          => invocations[i].cb.owner # invocations[j].cb.owner

(***************************************************************************)
(* C8: a call of get_base64_img stores the callback under its uuid before  *)
(* it sends, sends one message carrying that uuid, nothing is sent twice,  *)
(* and an entry leaves self.callbacks only through a reply carrying its    *)
(* uuid (or the caller's own removal).                                     *)
(***************************************************************************)
C8_StoredThenSent ==
    /\ \A t \in Threads :
          pc[t] = "r_send" =>
              /\ uuid[t] \in DOMAIN callbacks
              /\ callbacks[uuid[t]] = callback[t]
    /\ \A i, j \in 1..Len(sent) : sent[i].uuid = sent[j].uuid => i = j
    /\ Len(sent) = Cardinality((1..issued) \ InFlight)
    /\ \A u \in 1..issued : u \in SentIds <=> u \notin InFlight

C8_RemovedOnlyByReply ==
    \A u \in DOMAIN callbacks :
        u \notin DOMAIN callbacks' =>
            \/ \E t \in Threads : pc[t] = "h_del" /\ content[t].uuid = u
            \/ pc' = pc

\* C8: both parts: the state of the sends, and how entries may leave
C8_OneMessagePerRequest ==
    []C8_StoredThenSent /\ [][C8_RemovedOnlyByReply]_vars

\* request 1 was sent once, every delivery is used up, none was answered
\* to it, and it is still pending
C8_Witness ==
    /\ Len(sent) = 2
    /\ sent[1].uuid = 1
    /\ delivered = MaxDeliveries
    /\ \A t \in Threads : pc[t] = "idle"
    /\ 1 \in DOMAIN callbacks
    /\ \A i \in InvIdx : invocations[i].by # 1

C10_OriginalsUnchanged == views = views0

\* a clone got the server's address, another was changed by the caller,
\* and the originals still have no server
C10_Witness ==
    /\ cpc = "edited"
    /\ views = views0
    /\ \E i \in 1..Len(views) :
       \E j, k \in 1..Len(views[i].tracks) :
          /\ views[i].tracks[j].server = "absent"
          /\ cloned_views[i].tracks[j].server = FreshAddress
          /\ views[i].tracks[k].server = "absent"
          /\ cloned_views[i].tracks[k].server = EditedAddress

(***************************************************************************)
(* Shorthands for the properties of display().                             *)
(***************************************************************************)
RECURSIVE TrackPairs(_, _, _)
\* every track of the list os, at any depth, with the track at the same
\* place of the list cs; depth d is the depth of the lists' own tracks
TrackPairs(os, cs, d) ==
    UNION {{[o |-> os[i], c |-> cs[i], depth |-> d]}
           \cup TrackPairs(os[i].tracks, cs[i].tracks, d + 1) :
           i \in 1..(IF Len(os) < Len(cs) THEN Len(os) ELSE Len(cs))}

\* every track of the caller's views with its clone
Pairs ==
    UNION {TrackPairs(views0[i].tracks, cloned_views[i].tracks, 0) :
           i \in 1..(IF Len(views0) < Len(cloned_views)
                        THEN Len(views0) ELSE Len(cloned_views))}

IsLeaf(tr) == tr.kind = "leaf"
\* the loops that set the servers have run and the caller changed nothing
Composed == cpc \in {"build", "returned"}
\* the elements of a list
Range(q) == {q[i] : i \in 1..Len(q)}

RECURSIVE DeepTilesets(_)
\* the tileset references of a track list in depth-first order, children
\* in their order, at any depth
DeepTilesets(trs) ==
    IF trs = <<>>
        THEN <<>>
        ELSE (IF IsLeaf(Head(trs))
                 THEN (IF Head(trs).tileset # None
                          THEN <<Head(trs).tileset>> ELSE <<>>)
                 ELSE DeepTilesets(Head(trs).tracks))
             \o DeepTilesets(Tail(trs))

(***************************************************************************)
(* C11: after display() every leaf track of the clones that references a   *)
(* tileset and had no server (key absent or None) has the started          *)
(* server's address, at top level and inside combined tracks at any depth. *)
(***************************************************************************)
C11_ServerSetAtAnyDepth ==
    Composed =>
        \A p \in Pairs :
            ( /\ IsLeaf(p.o)
              /\ p.o.tileset # None
              /\ p.o.server \in {"absent", "null"} )
            => p.c.server = FreshAddress

(***************************************************************************)
(* C12: a leaf track, at top level or inside a combined track, whose       *)
(* server held an address before display() has the same server in the      *)
(* clone.                                                                  *)
(***************************************************************************)
C12_ExplicitServerKept ==
    Composed =>
        \A p \in Pairs :
            (IsLeaf(p.o) /\ p.o.server = "external:9000")
            => p.c.server = p.o.server

\* inside a combined track one leaf kept its address and one got the
\* started server's
C12_Witness ==
    /\ cpc = "returned"
    /\ \E p, q \in Pairs :
          /\ p.depth = 1 /\ IsLeaf(p.o) /\ p.o.tileset # None
          /\ p.o.server = "external:9000"
          /\ p.c.server = "external:9000"
          /\ q.depth = 1 /\ q.o.server = "absent"
          /\ q.c.server = FreshAddress

(***************************************************************************)
(* C13: a server key that is absent, None or the empty string is treated   *)
(* alike: the clone of a leaf track with a tileset gets the started        *)
(* server's address (stated for top-level tracks and the tracks of a       *)
(* top-level combined track).                                              *)
(***************************************************************************)
C13_AbsentNullEmptyAlike ==
    Composed =>
        \A p \in Pairs :
            ( /\ p.depth <= 1
              /\ IsLeaf(p.o)
              /\ p.o.tileset # None
              /\ p.o.server \in {"absent", "null", "empty"} )
            => p.c.server = FreshAddress

(***************************************************************************)
(* C14: the extracted tilesets are one reference per leaf track with a     *)
(* tileset, depth-first, children in order, duplicates kept, at any depth  *)
(* of combined tracks; the views are not changed.                          *)
(***************************************************************************)
C14_ExtractDepthFirst ==
    cpc = "start" =>
        /\ tilesets = Concat([i \in 1..Len(views0) |->
                                 DeepTilesets(views0[i].tracks)])
        /\ views = views0

(***************************************************************************)
(* C15: display() starts the server once, with the extracted tilesets,     *)
(* before any view is cloned or rewritten, also for no views at all; it    *)
(* does not try again, and when the start raises there are no clones and   *)
(* no viewconf.                                                            *)
(***************************************************************************)
C15_StartedOnceFirst ==
    /\ Len(started) <= 1
    /\ cpc \in {"extract", "start"} => started = <<>>
    /\ cpc \notin {"extract", "start"} => started = <<tilesets>>
    /\ cpc \in {"extract", "start", "raised", "clone"} => cloned_views = <<>>
    /\ cpc \in {"extract", "start", "raised"} => api_address = "-"
    /\ cpc \notin {"returned", "edited"} => viewconf = "-"
    /\ cpc \in {"extract", "start"} =>
          tilesets = (IF cpc = "start" THEN ExtractTilesets(views) ELSE <<>>)

\* the start raised for views with tilesets: one start, nothing produced
C15_Witness ==
    /\ cpc = "raised"
    /\ Len(started) = 1
    /\ started[1] # <<>>
    /\ cloned_views = <<>>
    /\ viewconf = "-"

(***************************************************************************)
(* C18: the clones differ from the originals in nothing but the server of  *)
(* leaf tracks with a tileset: views and tracks keep number and order, a   *)
(* combined track's own conf and a leaf track without a tileset get no     *)
(* server.                                                                 *)
(***************************************************************************)
C18_OnlyTilesetLeavesChange ==
    Composed =>
        /\ Len(cloned_views) = Len(views0)
        /\ \A i \in 1..Len(views0) :
              Len(cloned_views[i].tracks) = Len(views0[i].tracks)
        /\ \A p \in Pairs :
              /\ p.c.kind = p.o.kind
              /\ p.c.tileset = p.o.tileset
              /\ Len(p.c.tracks) = Len(p.o.tracks)
              /\ p.c.server # p.o.server =>
                    IsLeaf(p.o) /\ p.o.tileset # None

(***************************************************************************)
(* C19: every track with a tileset whose clone was given the started       *)
(* server's address has its tileset among those the server was started     *)
(* with.                                                                   *)
(***************************************************************************)
C19_RewrittenWereExtracted ==
    Composed =>
        \A p \in Pairs :
            ( /\ p.o.tileset # None
              /\ p.c.server = FreshAddress )
            => /\ Len(started) = 1
               /\ p.o.tileset \in Range(started[1])

\* the only track of T2 is inside a combined track; its clone has the
\* address and T2 was passed to the server
C19_Witness ==
    /\ cpc = "returned"
    /\ \E p \in Pairs :
          /\ p.depth = 1
          /\ p.o.tileset = "T2"
          /\ p.c.server = FreshAddress
          /\ "T2" \in Range(started[1])
    /\ \A p \in Pairs : p.depth = 0 => p.o.tileset = None

(***************************************************************************)
(* C17: when a reply's callback calls get_base64_img while it runs, then   *)
(* once the handler has returned the new uuid is pending with the new      *)
(* callback and the replied uuid is gone; a later reply for the new uuid   *)
(* invokes the new callback.                                               *)
(***************************************************************************)
\* the uuids made by the callback thread t's handler called
IssuedInHandler(t) ==
    {u \in DOMAIN issuedBy :
        issuedBy[u] = content[t].uuid /\ fn[t].kind = "reissue"}

C17_ReissueKept ==
    \A t \in Threads :
        Returned(t) =>
            /\ \A u \in IssuedInHandler(t) :
                  /\ u \in DOMAIN callbacks
                  /\ callbacks[u] = Callback(u, "ok")
                  /\ content[t].uuid \notin DOMAIN callbacks
            /\ ( /\ HasUuid(content[t])
                 /\ content[t].uuid \in DOMAIN issuedBy
                 /\ WasPending(t)
                 /\ HasImgData(content[t]) )
               => /\ InvokedWithPayload(t)
                  /\ invocations[Len(invocations)].cb =
                        Callback(content[t].uuid, "ok")

\* the reply for a uuid made inside a callback has invoked its callback
C17_Witness ==
    \E t \in Threads :
        /\ Returned(t)
        /\ content[t].uuid \in DOMAIN issuedBy
        /\ WasPending(t)
        /\ InvokedWithPayload(t)
        /\ issuedBy[content[t].uuid] \notin DOMAIN callbacks

(***************************************************************************)
(* C16: for every string with at least one comma the helper decodes all    *)
(* that follows the first comma and writes exactly those bytes to the      *)
(* file.                                                                   *)
(***************************************************************************)
HasComma(q) == \E i \in 1..Len(q) : q[i] = ","

C16_DecodesAfterFirstComma ==
    (ipc = "done" /\ HasComma(b64str)) =>
        /\ b64decode(PayloadAfterFirstComma(b64str)).ok
        /\ file = b64decode(PayloadAfterFirstComma(b64str)).bytes

====
